---------------------------- MODULE Spec2Model ----------------------------
(***************************************************************************)
(* Model of AndroidCrashAnalyzer (src/android/android_crash_analyzer.py):  *)
(* the analyze() file loop, _find_crashes_in_file() with its ripgrep and   *)
(* manual strategies, and _manual_search().                                *)
(*                                                                         *)
(* A text line is a sequence of tokens.  The tokens "FATAL", "fatal" and   *)
(* "EXCEPTION" stand for those words, " ", "\t", "\n" are the characters   *)
(* themselves, "x" is any other text and "--" is the two dashes.  A file   *)
(* is the sequence of lines readlines() returns, or NoFile when the path   *)
(* does not exist.  A crash block, "\n".join(block) in the source, is kept *)
(* as the sequence of its lines (no line holds a "\n" once stripped).      *)
(***************************************************************************)
EXTENDS Integers, Sequences, FiniteSets, TLC

VARIABLES
    file_paths,         \* analyze argument: per path, the file it names
    cancellation_event, \* "none" (argument absent), "clear" or "set"
    progress_callback,  \* TRUE iff a callback was passed
    rg_available,       \* is_ripgrep_available()
    pc,                 \* position of the coroutine
    file_idx,           \* enumerate(file_paths, 1) index of the current file
    all_crashes,        \* analyze local
    total_crashes,      \* analyze local
    files_with_crashes, \* analyze local
    crash_lines,        \* run_ripgrep local
    lines,              \* _manual_search local
    i,                  \* _manual_search loop index (1-based: next line)
    crashes,            \* _find_crashes_in_file / _manual_search local
    via,                \* strategy that is scanning the current file
    ret,                \* outcome of _find_crashes_in_file for the current file
    events,             \* ProgressEvents passed to progress_callback
    located,            \* file indices _find_crashes_in_file was called for
    scanned,            \* per file visited: how its scan ended
    result,             \* what analyze returned
    raised,             \* what analyze raised
    progress_errors,    \* file indices whose progress emission failed (line 119)
    called_set,         \* was the event set when _find_crashes_in_file was called
    requests            \* the analyze calls that run concurrently (SpecPair)

vars == <<file_paths, cancellation_event, progress_callback, rg_available, pc,
          file_idx, all_crashes, total_crashes, files_with_crashes, crash_lines,
          lines, i, crashes, via, ret, events, located, scanned, result, raised,
          progress_errors, called_set, requests>>

-----------------------------------------------------------------------------
(* Bounds and program constants *)

MaxLines == 13

MaxFiles == 2

\* context_after=10 (line 189); range(i, min(i + 11, len(lines))) (line 255)
ContextAfter == 10

-----------------------------------------------------------------------------
(* Lines and files *)

Min(a, b) == IF a < b THEN a ELSE b

Whitespace == {" ", "\t", "\n"}

Plain == <<"x", "\n">>

Fatal == <<"FATAL", " ", "EXCEPTION", "\n">>

FatalWs == <<"x", "fatal", "\t", " ", "EXCEPTION", " ", "\t", "\n">>

Dash == <<"--", "\n">>

Glued == <<"FATAL", "EXCEPTION", " ", "\n">>

\* a path that resolves to a readable file with these lines
File(content) == [exists |-> TRUE, content |-> content]

\* a path that does not exist
NoFile == [exists |-> FALSE, content |-> <<>>]

\* analyze has not returned
NoResult == [returned |-> FALSE, content |-> <<>>, metadata |-> <<>>]

\* _find_crashes_in_file has not finished for the current file
NoRet == [kind |-> "none", crashes |-> <<>>, exc |-> "none"]

\* the "--" ripgrep prints between context groups (line 203)
Separator == <<"--">>

LineKinds == {Plain, Fatal, FatalWs, Dash}

\* a file of n lines, all Plain but lines p and q
FileOf(n, p, a, q, b) ==
    [j \in 1..n |-> IF j = p THEN a ELSE IF j = q THEN b ELSE Plain]

ScanFiles ==
    {File(FileOf(n, p, a, q, b)) :
        n \in 0..MaxLines, p \in 1..MaxLines, q \in 1..MaxLines,
        a \in LineKinds, b \in LineKinds}

SmallFiles ==
    { NoFile, File(<<>>), File(<<Plain, Glued>>), File(<<Fatal, Plain>>),
      File(<<FatalWs, Dash, Fatal>>) }

RECURSIVE SeqsUpTo(_, _)
SeqsUpTo(S, n) ==
    IF n = 0 THEN {<<>>}
    ELSE LET shorter == SeqsUpTo(S, n - 1)
         IN  shorter \cup {Append(s, x) : s \in shorter, x \in S}

-----------------------------------------------------------------------------
(* Pure functions of the source *)

\* str.upper() on a token, as re.IGNORECASE compares
Upper(tok) ==
    IF tok = "fatal" THEN "FATAL" ELSE tok

\* pattern.search(line) for FATAL\s+EXCEPTION with re.IGNORECASE
PatternSearch(line) ==
    \E a \in 1..Len(line), b \in 1..Len(line) :
        /\ a + 1 < b
        /\ Upper(line[a]) = "FATAL"
        /\ Upper(line[b]) = "EXCEPTION"
        /\ \A c \in (a + 1)..(b - 1) : line[c] \in Whitespace

\* str.rstrip(): drops every trailing whitespace character
RECURSIVE Rstrip(_)
Rstrip(line) ==
    IF line # <<>> /\ line[Len(line)] \in Whitespace
    THEN Rstrip(SubSeq(line, 1, Len(line) - 1))
    ELSE line

\* CrashBlock, had the range ended at min(i + 10, len(lines))
CrashBlock_Short(ls, at) ==
    [j \in 1..(Min(at + ContextAfter, Len(ls) + 1) - at) |-> Rstrip(ls[at + j - 1])]

\* the crash line + 10 lines after, each rstripped (i is 1-based)
CrashBlock(ls, at) ==
    [j \in 1..(Min(at + ContextAfter + 1, Len(ls) + 1) - at) |-> Rstrip(ls[at + j - 1])]

\* ManualStep, had the new block been put in front of the earlier ones
ManualStep_Prepend(ls, at, found) ==
    IF PatternSearch(ls[at]) THEN <<CrashBlock(ls, at)>> \o found ELSE found

\* lines 252-257: the body of the line loop once the cancellation check
\* has passed
ManualStep(ls, at, found) ==
    IF PatternSearch(ls[at]) THEN Append(found, CrashBlock(ls, at)) ELSE found

\* lines 246-257 run to the end of the file without cancellation
RECURSIVE ManualFrom(_, _, _)
ManualFrom(ls, at, found) ==
    IF at > Len(ls) THEN found
    ELSE ManualFrom(ls, at + 1, ManualStep(ls, at, found))

ManualBlocks(ls) == ManualFrom(ls, 1, <<>>)

\* the line as the external tool prints it: without its line terminator
Chomp(line) ==
    IF line # <<>> /\ line[Len(line)] = "\n"
    THEN SubSeq(line, 1, Len(line) - 1)
    ELSE line

\* Output of ripgrep_search(file, pattern, context_after=10): every matching
\* line and the ContextAfter lines after it, each file line once, with one
\* Separator between context groups that are not adjacent in the file.
\*   j     : next line of the file
\*   until : last line of the context window that is open (0: none yet)
\*   last  : last line printed (0: none yet)
RECURSIVE RgScan(_, _, _, _, _)
RgScan(ls, j, until, last, out) ==
    IF j > Len(ls) THEN out
    ELSE IF PatternSearch(ls[j])
    THEN RgScan(ls, j + 1, j + ContextAfter, j,
                (IF last # 0 /\ last + 1 < j THEN Append(out, Separator) ELSE out)
                    \o <<Chomp(ls[j])>>)
    ELSE IF j <= until
    THEN RgScan(ls, j + 1, until, j, Append(out, Chomp(ls[j])))
    ELSE RgScan(ls, j + 1, until, last, out)

RipgrepSearch(file) == RgScan(file, 1, 0, 0, <<>>)

\* GroupLoop, had the lines left at the end of the output been dropped
RECURSIVE GroupLoop_NoFlush(_, _, _, _)
GroupLoop_NoFlush(all_lines, k, current_crash, acc) ==
    IF k > Len(all_lines)
    THEN acc
    ELSE IF all_lines[k] = Separator
    THEN IF current_crash # <<>>
         THEN GroupLoop_NoFlush(all_lines, k + 1, <<>>, Append(acc, current_crash))
         ELSE GroupLoop_NoFlush(all_lines, k + 1, current_crash, acc)
    ELSE GroupLoop_NoFlush(all_lines, k + 1, Append(current_crash, all_lines[k]), acc)

\* Lines 201-212: group the lines by the "--" separator.
\*   k : next line of all_lines
RECURSIVE GroupLoop(_, _, _, _)
GroupLoop(all_lines, k, current_crash, acc) ==
    IF k > Len(all_lines)
    THEN IF current_crash # <<>> THEN Append(acc, current_crash) ELSE acc
    ELSE IF all_lines[k] = Separator
    THEN IF current_crash # <<>>
         THEN GroupLoop(all_lines, k + 1, <<>>, Append(acc, current_crash))
         ELSE GroupLoop(all_lines, k + 1, current_crash, acc)
    ELSE GroupLoop(all_lines, k + 1, Append(current_crash, all_lines[k]), acc)

GroupBySeparator(all_lines) == GroupLoop(all_lines, 1, <<>>, <<>>)

-----------------------------------------------------------------------------
(* Exceptions *)

\* CancelledError is imported from app.services.file_handler (lines 101, 249),
\* which defines it as an ordinary exception class, a subclass of Exception.
CancelledErrorIsException == TRUE

\* does "except Exception" (lines 137, 214, 259) catch exc
IsException(exc) ==
    \/ exc = "OSError"
    \/ exc = "RipgrepError"
    \/ exc = "CancelledError" /\ CancelledErrorIsException

\* cancellation_event and cancellation_event.is_set() (lines 99, 248)
IsSet == cancellation_event = "set"

-----------------------------------------------------------------------------
(* analyze, lines 71-155 *)

Init ==
    /\ file_paths \in SeqsUpTo(SmallFiles, MaxFiles)
    /\ cancellation_event \in {"none", "clear"}
    /\ progress_callback \in BOOLEAN
    /\ rg_available \in BOOLEAN
    /\ pc = "loop"
    /\ file_idx = 1
    /\ all_crashes = <<>>
    /\ total_crashes = 0
    /\ files_with_crashes = 0
    /\ crash_lines = <<>>
    /\ lines = <<>>
    /\ i = 1
    /\ crashes = <<>>
    /\ via = "none"
    /\ ret = NoRet
    /\ events = <<>>
    /\ located = <<>>
    /\ scanned = <<>>
    /\ result = NoResult
    /\ raised = "none"
    /\ progress_errors = <<>>
    /\ called_set = FALSE
    /\ requests = <<>>

\* the caller sets the event while analyze is running
Cancel ==
    /\ cancellation_event = "clear"
    /\ pc \notin {"returned", "raised"}
    /\ cancellation_event' = "set"
    /\ UNCHANGED <<requests, called_set, progress_errors, file_paths, progress_callback, rg_available, pc, file_idx,
                   all_crashes, total_crashes, files_with_crashes, crash_lines,
                   lines, i, crashes, via, ret, events, located, scanned,
                   result, raised>>

\* CheckCancellation, had it ended the loop and returned what was gathered
CheckCancellation_Partial ==
    /\ pc = "loop"
    /\ file_idx <= Len(file_paths)
    /\ IsSet
    /\ result' = [returned |-> TRUE,
                  content |-> all_crashes,
                  metadata |-> [total_crashes |-> total_crashes,
                                files_with_crashes |-> files_with_crashes,
                                total_files |-> Len(file_paths)]]
    /\ pc' = "returned"
    /\ UNCHANGED <<requests, called_set, progress_errors, file_paths, cancellation_event, progress_callback,
                   rg_available, file_idx, all_crashes, total_crashes,
                   files_with_crashes, crash_lines, lines, i, crashes, via,
                   ret, events, located, scanned, raised>>

\* lines 99-102: the per-file check finds the event set
CheckCancellation ==
    /\ pc = "loop"
    /\ file_idx <= Len(file_paths)
    /\ IsSet
    /\ raised' = "CancelledError"
    /\ pc' = "raised"
    /\ UNCHANGED <<requests, called_set, progress_errors, file_paths, cancellation_event, progress_callback,
                   rg_available, file_idx, all_crashes, total_crashes,
                   files_with_crashes, crash_lines, lines, i, crashes, via,
                   ret, events, located, scanned, result>>

\* lines 97-105: the per-file check passes
NextFile ==
    /\ pc = "loop"
    /\ file_idx <= Len(file_paths)
    /\ ~IsSet
    /\ pc' = IF progress_callback THEN "progress" ELSE "locate"
    /\ UNCHANGED <<requests, called_set, progress_errors, file_paths, cancellation_event, progress_callback,
                   rg_available, file_idx, all_crashes, total_crashes,
                   files_with_crashes, crash_lines, lines, i, crashes, via,
                   ret, events, located, scanned, result, raised>>

\* ProgressEvent, had it carried the 0-based position of the file
ProgressEvent_ZeroBased(idx) ==
    [type |-> "file_open", file_path |-> idx, file_index |-> idx - 1,
     total_files |-> Len(file_paths)]

\* ProgressEvent(...) of lines 108-117
ProgressEvent(idx) ==
    [type |-> "file_open", file_path |-> idx, file_index |-> idx,
     total_files |-> Len(file_paths)]

\* EmitProgress, had a failure of the size lookup or of the callback been
\* raised to the caller
EmitProgress_Propagate ==
    /\ pc = "progress"
    /\ \E callback_raises \in BOOLEAN :
          IF ~file_paths[file_idx].exists
          THEN /\ events' = events
               /\ raised' = "OSError"
               /\ pc' = "raised"
          ELSE /\ events' = Append(events, [type |-> "file_open",
                                file_path |-> file_idx, file_index |-> file_idx,
                                total_files |-> Len(file_paths)])
               /\ raised' = IF callback_raises THEN "CallbackError" ELSE raised
               /\ pc' = IF callback_raises THEN "raised" ELSE "locate"
    /\ UNCHANGED <<requests, called_set, progress_errors, file_paths,
                   cancellation_event, progress_callback,
                   rg_available, file_idx, all_crashes, total_crashes,
                   files_with_crashes, crash_lines, lines, i, crashes, via,
                   ret, located, scanned, result>>

\* lines 105-119: os.path.getsize raises for a missing file, before the
\* callback is called; the callback itself returns or raises; either
\* exception is logged and swallowed
EmitProgress ==
    /\ pc = "progress"
    /\ \E callback_raises \in BOOLEAN :
          IF ~file_paths[file_idx].exists
          THEN /\ events' = events
               /\ progress_errors' = Append(progress_errors, file_idx)
          ELSE /\ events' = Append(events, ProgressEvent(file_idx))
               /\ progress_errors' = IF callback_raises
                                     THEN Append(progress_errors, file_idx)
                                     ELSE progress_errors
    /\ pc' = "locate"
    /\ UNCHANGED <<requests, called_set, file_paths, cancellation_event,
                   progress_callback,
                   rg_available, file_idx, all_crashes, total_crashes,
                   files_with_crashes, crash_lines, lines, i, crashes, via,
                   ret, located, scanned, result, raised>>

\* Accumulate, had an error of one file been raised to the caller
Accumulate_Abort ==
    /\ pc = "located"
    /\ IF ret.kind = "return"
       THEN /\ IF ret.crashes # <<>>
               THEN /\ all_crashes' = Append(all_crashes,
                            [file |-> file_idx, crashes |-> ret.crashes])
                    /\ total_crashes' = total_crashes + Len(ret.crashes)
                    /\ files_with_crashes' = files_with_crashes + 1
               ELSE UNCHANGED <<all_crashes, total_crashes, files_with_crashes>>
            /\ scanned' = Append(scanned,
                    [file_index |-> file_idx, via |-> via, outcome |-> "ok",
                     crashes |-> ret.crashes])
            /\ file_idx' = file_idx + 1
            /\ pc' = "loop"
            /\ UNCHANGED raised
       ELSE /\ scanned' = Append(scanned,
                    [file_index |-> file_idx, via |-> via,
                     outcome |-> IF ret.exc = "CancelledError"
                                 THEN "cancelled" ELSE "error",
                     crashes |-> <<>>])
            /\ UNCHANGED <<all_crashes, total_crashes, files_with_crashes>>
            /\ raised' = ret.exc
            /\ pc' = "raised"
            /\ UNCHANGED file_idx
    /\ ret' = NoRet
    /\ via' = "none"
    /\ UNCHANGED <<requests, called_set, progress_errors, file_paths, cancellation_event, progress_callback,
                   rg_available, crash_lines, lines, i, crashes, events,
                   located, result>>

\* Accumulate, had it counted one crash per file with crashes
Accumulate_CountOne ==
    /\ pc = "located"
    /\ IF ret.kind = "return"
       THEN /\ IF ret.crashes # <<>>
               THEN /\ all_crashes' = Append(all_crashes,
                            [file |-> file_idx, crashes |-> ret.crashes])
                    /\ total_crashes' = total_crashes + 1
                    /\ files_with_crashes' = files_with_crashes + 1
               ELSE UNCHANGED <<all_crashes, total_crashes, files_with_crashes>>
            /\ scanned' = Append(scanned,
                    [file_index |-> file_idx, via |-> via, outcome |-> "ok",
                     crashes |-> ret.crashes])
            /\ file_idx' = file_idx + 1
            /\ pc' = "loop"
            /\ UNCHANGED raised
       ELSE /\ scanned' = Append(scanned,
                    [file_index |-> file_idx, via |-> via,
                     outcome |-> IF ret.exc = "CancelledError"
                                 THEN "cancelled" ELSE "error",
                     crashes |-> <<>>])
            /\ UNCHANGED <<all_crashes, total_crashes, files_with_crashes>>
            /\ IF IsException(ret.exc)
               THEN /\ file_idx' = file_idx + 1
                    /\ pc' = "loop"
                    /\ UNCHANGED raised
               ELSE /\ raised' = ret.exc
                    /\ pc' = "raised"
                    /\ UNCHANGED file_idx
    /\ ret' = NoRet
    /\ via' = "none"
    /\ UNCHANGED <<requests, called_set, progress_errors, file_paths, cancellation_event, progress_callback,
                   rg_available, crash_lines, lines, i, crashes, events,
                   located, result>>

\* Accumulate, had an error of one file ended the loop (break)
Accumulate_Stop ==
    /\ pc = "located"
    /\ IF ret.kind = "return"
       THEN /\ IF ret.crashes # <<>>
               THEN /\ all_crashes' = Append(all_crashes,
                            [file |-> file_idx, crashes |-> ret.crashes])
                    /\ total_crashes' = total_crashes + Len(ret.crashes)
                    /\ files_with_crashes' = files_with_crashes + 1
               ELSE UNCHANGED <<all_crashes, total_crashes, files_with_crashes>>
            /\ scanned' = Append(scanned,
                    [file_index |-> file_idx, via |-> via, outcome |-> "ok",
                     crashes |-> ret.crashes])
            /\ file_idx' = file_idx + 1
            /\ pc' = "loop"
            /\ UNCHANGED raised
       ELSE /\ scanned' = Append(scanned,
                    [file_index |-> file_idx, via |-> via,
                     outcome |-> IF ret.exc = "CancelledError"
                                 THEN "cancelled" ELSE "error",
                     crashes |-> <<>>])
            /\ UNCHANGED <<all_crashes, total_crashes, files_with_crashes>>
            /\ IF IsException(ret.exc)
               THEN /\ file_idx' = Len(file_paths) + 1
                    /\ pc' = "loop"
                    /\ UNCHANGED raised
               ELSE /\ raised' = ret.exc
                    /\ pc' = "raised"
                    /\ UNCHANGED file_idx
    /\ ret' = NoRet
    /\ via' = "none"
    /\ UNCHANGED <<requests, called_set, progress_errors, file_paths, cancellation_event, progress_callback,
                   rg_available, crash_lines, lines, i, crashes, events,
                   located, result>>

\* lines 123-139: what analyze does with the outcome of _find_crashes_in_file
Accumulate ==
    /\ pc = "located"
    /\ IF ret.kind = "return"
       THEN /\ IF ret.crashes # <<>>
               THEN /\ all_crashes' = Append(all_crashes,
                            [file |-> file_idx, crashes |-> ret.crashes])
                    /\ total_crashes' = total_crashes + Len(ret.crashes)
                    /\ files_with_crashes' = files_with_crashes + 1
               ELSE UNCHANGED <<all_crashes, total_crashes, files_with_crashes>>
            /\ scanned' = Append(scanned,
                    [file_index |-> file_idx, via |-> via, outcome |-> "ok",
                     crashes |-> ret.crashes])
            /\ file_idx' = file_idx + 1
            /\ pc' = "loop"
            /\ UNCHANGED raised
       ELSE /\ scanned' = Append(scanned,
                    [file_index |-> file_idx, via |-> via,
                     outcome |-> IF ret.exc = "CancelledError"
                                 THEN "cancelled" ELSE "error",
                     crashes |-> <<>>])
            /\ UNCHANGED <<all_crashes, total_crashes, files_with_crashes>>
            /\ IF IsException(ret.exc)
               THEN /\ file_idx' = file_idx + 1
                    /\ pc' = "loop"
                    /\ UNCHANGED raised
               ELSE /\ raised' = ret.exc
                    /\ pc' = "raised"
                    /\ UNCHANGED file_idx
    /\ ret' = NoRet
    /\ via' = "none"
    /\ UNCHANGED <<requests, called_set, progress_errors, file_paths, cancellation_event, progress_callback,
                   rg_available, crash_lines, lines, i, crashes, events,
                   located, result>>

\* _format_results, lines 285-309: the per-file sections of the report
FormatResults(crashes_by_file, total) ==
    IF total = 0 THEN <<>> ELSE crashes_by_file

\* Return, had total_files counted the files whose scan completed
Return_CountScanned ==
    /\ pc = "loop"
    /\ file_idx > Len(file_paths)
    /\ result' = [returned |-> TRUE,
                  content |-> FormatResults(all_crashes, total_crashes),
                  metadata |-> [total_crashes |-> total_crashes,
                                files_with_crashes |-> files_with_crashes,
                                total_files |->
                                    Cardinality({k \in 1..Len(scanned) :
                                        scanned[k].outcome = "ok"})]]
    /\ pc' = "returned"
    /\ UNCHANGED <<requests, called_set, progress_errors, file_paths, cancellation_event, progress_callback,
                   rg_available, file_idx, all_crashes, total_crashes,
                   files_with_crashes, crash_lines, lines, i, crashes, via,
                   ret, events, located, scanned, raised>>

\* lines 142-155: the loop is over
Return ==
    /\ pc = "loop"
    /\ file_idx > Len(file_paths)
    /\ result' = [returned |-> TRUE,
                  content |-> FormatResults(all_crashes, total_crashes),
                  metadata |-> [total_crashes |-> total_crashes,
                                files_with_crashes |-> files_with_crashes,
                                total_files |-> Len(file_paths)]]
    /\ pc' = "returned"
    /\ UNCHANGED <<requests, called_set, progress_errors, file_paths, cancellation_event, progress_callback,
                   rg_available, file_idx, all_crashes, total_crashes,
                   files_with_crashes, crash_lines, lines, i, crashes, via,
                   ret, events, located, scanned, raised>>

-----------------------------------------------------------------------------
(* _find_crashes_in_file, lines 157-221 *)

\* lines 172-198 and 217-219: pick the strategy
FindCrashesInFile ==
    /\ pc = "locate"
    /\ located' = Append(located, file_idx)
    /\ called_set' = IsSet
    /\ crashes' = <<>>
    /\ ret' = NoRet
    /\ IF rg_available
       THEN /\ pc' = "rg_wait"
            /\ via' = "ripgrep"
       ELSE /\ pc' = "manual_open"
            /\ via' = "manual"
    /\ UNCHANGED <<requests, progress_errors, file_paths, cancellation_event, progress_callback,
                   rg_available, file_idx, all_crashes, total_crashes,
                   files_with_crashes, crash_lines, lines, i, events, scanned,
                   result, raised>>

\* lines 181-212: run_ripgrep returns every line of the search and the
\* lines are grouped; for a missing path the search may yield nothing
RipgrepReturns ==
    /\ pc = "rg_wait"
    /\ LET all_lines == RipgrepSearch(file_paths[file_idx].content)
       IN  /\ crashes' = GroupBySeparator(all_lines)
           /\ ret' = [kind |-> "return", crashes |-> GroupBySeparator(all_lines),
                      exc |-> "none"]
    /\ pc' = "located"
    /\ UNCHANGED <<requests, called_set, progress_errors, file_paths, cancellation_event, progress_callback,
                   rg_available, file_idx, all_crashes, total_crashes,
                   files_with_crashes, crash_lines, lines, i, via, events,
                   located, scanned, result, raised>>

\* lines 186-194: the search raises after it yielded n lines (any n, all
\* of the lines included); run_ripgrep logs and re-raises
RipgrepRaises ==
    /\ pc = "rg_wait"
    /\ LET out == RipgrepSearch(file_paths[file_idx].content)
       IN  \E n \in 0..Len(out) : crash_lines' = SubSeq(out, 1, n)
    /\ pc' = "rg_failed"
    /\ UNCHANGED <<requests, called_set, progress_errors, file_paths, cancellation_event, progress_callback,
                   rg_available, file_idx, all_crashes, total_crashes,
                   files_with_crashes, lines, i, crashes, via, ret, events,
                   located, scanned, result, raised>>

\* Fallback, had it returned the blocks of the lines collected so far
Fallback_KeepPartial ==
    /\ pc = "rg_failed"
    /\ crashes' = GroupBySeparator(crash_lines)
    /\ ret' = [kind |-> "return", crashes |-> GroupBySeparator(crash_lines),
               exc |-> "none"]
    /\ crash_lines' = <<>>
    /\ via' = "fallback"
    /\ pc' = "located"
    /\ UNCHANGED <<requests, called_set, progress_errors, file_paths, cancellation_event, progress_callback,
                   rg_available, file_idx, all_crashes, total_crashes,
                   files_with_crashes, lines, i, events, located, scanned,
                   result, raised>>

\* lines 214-216: the failure is caught (run_ripgrep's frame, and with it
\* crash_lines, is gone) and the file goes to _manual_search
Fallback ==
    /\ pc = "rg_failed"
    /\ crash_lines' = <<>>
    /\ via' = "fallback"
    /\ pc' = "manual_open"
    /\ UNCHANGED <<requests, called_set, progress_errors, file_paths, cancellation_event, progress_callback,
                   rg_available, file_idx, all_crashes, total_crashes,
                   files_with_crashes, lines, i, crashes, ret, events, located,
                   scanned, result, raised>>

-----------------------------------------------------------------------------
(* _manual_search, lines 223-263 *)

\* lines 239-244 and 259-261: open and read the file; a failure is logged
\* and re-raised, through _find_crashes_in_file, to analyze
ManualOpen ==
    /\ pc = "manual_open"
    /\ IF file_paths[file_idx].exists
       THEN /\ lines' = file_paths[file_idx].content
            /\ i' = 1
            /\ crashes' = <<>>
            /\ pc' = "manual_loop"
            /\ UNCHANGED ret
       ELSE /\ ret' = [kind |-> "raise", crashes |-> <<>>, exc |-> "OSError"]
            /\ pc' = "located"
            /\ UNCHANGED <<lines, i, crashes>>
    /\ UNCHANGED <<requests, called_set, progress_errors, file_paths, cancellation_event, progress_callback,
                   rg_available, file_idx, all_crashes, total_crashes,
                   files_with_crashes, crash_lines, via, events, located,
                   scanned, result, raised>>

\* lines 246-257: one iteration of the line loop
ManualLine ==
    /\ pc = "manual_loop"
    /\ i <= Len(lines)
    /\ IF IsSet
       THEN /\ ret' = [kind |-> "raise", crashes |-> <<>>,
                       exc |-> "CancelledError"]
            /\ pc' = "located"
            /\ UNCHANGED <<i, crashes>>
       ELSE /\ crashes' = ManualStep(lines, i, crashes)
            /\ i' = i + 1
            /\ UNCHANGED <<ret, pc>>
    /\ UNCHANGED <<requests, called_set, progress_errors, file_paths, cancellation_event, progress_callback,
                   rg_available, file_idx, all_crashes, total_crashes,
                   files_with_crashes, crash_lines, lines, via, events,
                   located, scanned, result, raised>>

\* line 263 (and 221): the loop is over, the blocks are returned
ManualReturn ==
    /\ pc = "manual_loop"
    /\ i > Len(lines)
    /\ ret' = [kind |-> "return", crashes |-> crashes, exc |-> "none"]
    /\ pc' = "located"
    /\ UNCHANGED <<requests, called_set, progress_errors, file_paths, cancellation_event, progress_callback,
                   rg_available, file_idx, all_crashes, total_crashes,
                   files_with_crashes, crash_lines, lines, i, crashes, via,
                   events, located, scanned, result, raised>>

-----------------------------------------------------------------------------
(* Specifications *)

Next ==
    \/ Cancel
    \/ CheckCancellation
    \/ NextFile
    \/ EmitProgress
    \/ FindCrashesInFile
    \/ RipgrepReturns
    \/ RipgrepRaises
    \/ Fallback
    \/ ManualOpen
    \/ ManualLine
    \/ ManualReturn
    \/ Accumulate
    \/ Return

Spec == Init /\ [][Next]_vars

\* the steps of the coroutine: every step but the caller's Cancel
Step ==
    \/ CheckCancellation
    \/ NextFile
    \/ EmitProgress
    \/ FindCrashesInFile
    \/ RipgrepReturns
    \/ RipgrepRaises
    \/ Fallback
    \/ ManualOpen
    \/ ManualLine
    \/ ManualReturn
    \/ Accumulate
    \/ Return

\* the event loop resumes the coroutine whenever it can run, and every
\* search, file read and callback it waits for returns or raises
LiveSpec == Init /\ [][Next]_vars /\ WF_vars(Step)

\* _find_crashes_in_file called on one file of ScanFiles
InitScan ==
    /\ file_paths \in {<<f>> : f \in ScanFiles}
    /\ cancellation_event = "none"
    /\ progress_callback = FALSE
    /\ rg_available \in BOOLEAN
    /\ pc = "locate"
    /\ file_idx = 1
    /\ all_crashes = <<>>
    /\ total_crashes = 0
    /\ files_with_crashes = 0
    /\ crash_lines = <<>>
    /\ lines = <<>>
    /\ i = 1
    /\ crashes = <<>>
    /\ via = "none"
    /\ ret = NoRet
    /\ events = <<>>
    /\ located = <<>>
    /\ scanned = <<>>
    /\ result = NoResult
    /\ raised = "none"
    /\ progress_errors = <<>>
    /\ called_set = FALSE
    /\ requests = <<>>

NextScan ==
    \/ FindCrashesInFile
    \/ RipgrepReturns
    \/ RipgrepRaises
    \/ Fallback
    \/ ManualOpen
    \/ ManualLine
    \/ ManualReturn

SpecScan == InitScan /\ [][NextScan]_vars

-----------------------------------------------------------------------------
(* Two analyze calls on one analyzer, interleaved at their await points *)

MaxPairFiles == 2

PairFiles == { NoFile, File(<<FatalWs, Dash, Fatal>>) }

\* lines 93-95: the locals of a call of analyze that has just started
NewRequest(paths, callback) ==
    [file_paths |-> paths, progress_callback |-> callback, pc |-> "loop",
     file_idx |-> 1, all_crashes |-> <<>>, total_crashes |-> 0,
     files_with_crashes |-> 0, vias |-> <<>>, result |-> NoResult]

\* Store, had the accumulators been attributes of the analyzer
Store_OnSelf(r, q) ==
    [o \in DOMAIN requests |->
        IF o = r THEN q
        ELSE [requests[o] EXCEPT !.all_crashes = q.all_crashes,
                                 !.total_crashes = q.total_crashes,
                                 !.files_with_crashes = q.files_with_crashes]]

\* lines 93-95: all_crashes, total_crashes and files_with_crashes are
\* locals of the call: call r writes its own only
Store(r, q) == [requests EXCEPT ![r] = q]

\* lines 123-139 for call q: the blocks found by strategy v are
\* accumulated (failed: the scan raised, the file is skipped)
Accumulated(q, v, failed, blocks) ==
    IF ~failed /\ blocks # <<>>
    THEN [q EXCEPT !.all_crashes = Append(q.all_crashes,
                        [file |-> q.file_idx, crashes |-> blocks]),
                   !.total_crashes = q.total_crashes + Len(blocks),
                   !.files_with_crashes = q.files_with_crashes + 1,
                   !.vias = Append(q.vias, v),
                   !.file_idx = q.file_idx + 1,
                   !.pc = "loop"]
    ELSE [q EXCEPT !.vias = Append(q.vias, v),
                   !.file_idx = q.file_idx + 1,
                   !.pc = "loop"]

\* _manual_search (lines 238-263, no await inside) for call q by strategy v
ManualScanned(q, v) ==
    LET file == q.file_paths[q.file_idx]
    IN  Accumulated(q, v, ~file.exists, ManualBlocks(file.content))

InitPair ==
    /\ requests \in
          {<<NewRequest(p1, TRUE), NewRequest(p2, FALSE)>> :
              p1 \in SeqsUpTo(PairFiles, MaxPairFiles),
              p2 \in SeqsUpTo(PairFiles, MaxPairFiles)}
    /\ rg_available \in BOOLEAN
    /\ file_paths = <<>>
    /\ cancellation_event = "none"
    /\ progress_callback = FALSE
    /\ pc = "idle"
    /\ file_idx = 1
    /\ all_crashes = <<>>
    /\ total_crashes = 0
    /\ files_with_crashes = 0
    /\ crash_lines = <<>>
    /\ lines = <<>>
    /\ i = 1
    /\ crashes = <<>>
    /\ via = "none"
    /\ ret = NoRet
    /\ events = <<>>
    /\ located = <<>>
    /\ scanned = <<>>
    /\ result = NoResult
    /\ raised = "none"
    /\ progress_errors = <<>>
    /\ called_set = FALSE

\* the variables of the single call
single == <<file_paths, cancellation_event, progress_callback, rg_available,
            pc, file_idx, all_crashes, total_crashes, files_with_crashes,
            crash_lines, lines, i, crashes, via, ret, events, located, scanned,
            result, raised, progress_errors, called_set>>

\* lines 97-117 for call r: up to the await of the callback, or to the
\* call of _find_crashes_in_file when there is no callback
PairNextFile(r) ==
    /\ requests[r].pc = "loop"
    /\ requests[r].file_idx <= Len(requests[r].file_paths)
    /\ requests' = Store(r, [requests[r] EXCEPT !.pc =
                        IF requests[r].progress_callback
                        THEN "progress" ELSE "locate"])
    /\ UNCHANGED single

\* lines 108-119 for call r: the awaited callback returns or raises
PairEmitProgress(r) ==
    /\ requests[r].pc = "progress"
    /\ requests' = Store(r, [requests[r] EXCEPT !.pc = "locate"])
    /\ UNCHANGED single

\* lines 123 and 172-219 for call r: up to the await of the executor, or
\* through _manual_search when ripgrep is not available
PairFindCrashes(r) ==
    /\ requests[r].pc = "locate"
    /\ requests' = Store(r, IF rg_available
                            THEN [requests[r] EXCEPT !.pc = "rg_wait"]
                            ELSE ManualScanned(requests[r], "manual"))
    /\ UNCHANGED single

\* lines 198-216 and 125-139 for call r: the executor is done; the lines
\* are grouped, or the search failed and _manual_search runs
PairRipgrepDone(r) ==
    /\ requests[r].pc = "rg_wait"
    /\ \E rg_failed \in BOOLEAN :
          requests' = Store(r,
              IF rg_failed
              THEN ManualScanned(requests[r], "fallback")
              ELSE Accumulated(requests[r], "ripgrep", FALSE,
                      GroupBySeparator(RipgrepSearch(
                          requests[r].file_paths[requests[r].file_idx].content))))
    /\ UNCHANGED single

\* lines 142-155 for call r
PairReturn(r) ==
    /\ requests[r].pc = "loop"
    /\ requests[r].file_idx > Len(requests[r].file_paths)
    /\ requests' = Store(r, [requests[r] EXCEPT
            !.pc = "returned",
            !.result = [returned |-> TRUE,
                content |-> FormatResults(requests[r].all_crashes,
                                          requests[r].total_crashes),
                metadata |-> [total_crashes |-> requests[r].total_crashes,
                              files_with_crashes |-> requests[r].files_with_crashes,
                              total_files |-> Len(requests[r].file_paths)]]])
    /\ UNCHANGED single

NextPair ==
    \E r \in DOMAIN requests :
        \/ PairNextFile(r)
        \/ PairEmitProgress(r)
        \/ PairFindCrashes(r)
        \/ PairRipgrepDone(r)
        \/ PairReturn(r)

SpecPair == InitPair /\ [][NextPair]_vars

-----------------------------------------------------------------------------
(* The grouping loop of lines 200-212 on any output *)

MaxOutput == 5

\* lines the search can hand over: the separator and two texts
OutputLines == {Separator, <<"x">>, <<"FATAL", " ", "EXCEPTION">>}

InitGroup ==
    /\ crash_lines \in SeqsUpTo(OutputLines, MaxOutput)
    /\ rg_available = TRUE
    /\ pc = "group"
    /\ via = "ripgrep"
    /\ file_paths = <<>>
    /\ cancellation_event = "none"
    /\ progress_callback = FALSE
    /\ file_idx = 1
    /\ all_crashes = <<>>
    /\ total_crashes = 0
    /\ files_with_crashes = 0
    /\ lines = <<>>
    /\ i = 1
    /\ crashes = <<>>
    /\ ret = NoRet
    /\ events = <<>>
    /\ located = <<>>
    /\ scanned = <<>>
    /\ result = NoResult
    /\ raised = "none"
    /\ progress_errors = <<>>
    /\ called_set = FALSE
    /\ requests = <<>>

\* lines 198-212 and 221: the lines run_ripgrep returned are grouped and
\* the blocks returned
GroupLines ==
    /\ pc = "group"
    /\ crashes' = GroupBySeparator(crash_lines)
    /\ ret' = [kind |-> "return", crashes |-> GroupBySeparator(crash_lines),
               exc |-> "none"]
    /\ pc' = "located"
    /\ UNCHANGED <<requests, called_set, progress_errors, file_paths,
                   cancellation_event, progress_callback, rg_available,
                   file_idx, all_crashes, total_crashes, files_with_crashes,
                   crash_lines, lines, i, via, events, located, scanned,
                   result, raised>>

NextGroup == GroupLines

SpecGroup == InitGroup /\ [][NextGroup]_vars

-----------------------------------------------------------------------------
(* What a scan should have produced *)

\* the lines of the file at position idx of the request
ContentOf(idx) == file_paths[idx].content

\* the blocks the strategy that scanned entry e of scanned produces
BlocksOfScan(e) ==
    IF e.via = "ripgrep"
    THEN GroupBySeparator(RipgrepSearch(ContentOf(e.file_index)))
    ELSE ManualBlocks(ContentOf(e.file_index))

\* the per-file entries of the files of s that scanned successfully and
\* have blocks, in the order of s
RECURSIVE EntriesOf(_)
EntriesOf(s) ==
    IF s = <<>> THEN <<>>
    ELSE LET e == s[Len(s)]
             before == EntriesOf(SubSeq(s, 1, Len(s) - 1))
         IN  IF e.outcome = "ok" /\ BlocksOfScan(e) # <<>>
             THEN Append(before, [file |-> e.file_index, crashes |-> BlocksOfScan(e)])
             ELSE before

\* number of blocks of a sequence of per-file entries
RECURSIVE BlockCount(_)
BlockCount(entries) ==
    IF entries = <<>> THEN 0
    ELSE Len(entries[1].crashes) + BlockCount(Tail(entries))

-----------------------------------------------------------------------------
(* Claims *)

\* C1: when _find_crashes_in_file raised the cancellation for a file
\* (the in-loop check of _manual_search saw the event set), analyze ends by
\* raising it and returns no report, whichever file of the request it was.
C1_CancellationPropagates ==
    pc = "returned" =>
        \A k \in 1..Len(scanned) : scanned[k].outcome # "cancelled"

\* analyze ended at the per-file check of file file_idx
AbortedAtCheck ==
    /\ pc = "raised"
    /\ \A k \in 1..Len(scanned) : scanned[k].file_index # file_idx

\* C2: if the event is set at the per-file check before file k, the only
\* step analyze takes raises CancelledError: nothing is returned, no
\* progress event is emitted for file k, _find_crashes_in_file is not
\* called for file k or a later one, and analyze takes no further step.
C2_CheckAborts ==
    /\ [][/\ pc # "raised"
           /\ (pc = "loop" /\ file_idx <= Len(file_paths) /\ IsSet) =>
                 /\ pc' = "raised"
                 /\ raised' = "CancelledError"
                 /\ ~result'.returned
                 /\ events' = events
                 /\ located' = located]_vars
    /\ [](AbortedAtCheck =>
            /\ raised = "CancelledError"
            /\ ~result.returned
            /\ \A e \in 1..Len(events) : events[e].file_index < file_idx
            /\ \A l \in 1..Len(located) : located[l] < file_idx)

\* the event was found set before file 2, after file 1 gave blocks
C2_Witness ==
    /\ AbortedAtCheck
    /\ file_idx = 2
    /\ all_crashes # <<>>
    /\ ~result.returned

\* C3: an error of _find_crashes_in_file other than the cancellation does
\* not end analyze: the loop goes on to the next file with the accumulators
\* untouched, and the report returned holds exactly the blocks of the
\* files that scanned successfully, in input order, and counts only them.
C3_FailedFileSkipped ==
    /\ [][(pc = "located" /\ pc' # pc /\ ret.kind = "raise"
              /\ ret.exc # "CancelledError") =>
                 /\ pc' = "loop"
                 /\ file_idx' = file_idx + 1
                 /\ raised' = "none"
                 /\ UNCHANGED <<all_crashes, total_crashes,
                                files_with_crashes>>]_vars
    /\ [](pc = "returned" =>
            /\ result.content = EntriesOf(scanned)
            /\ result.metadata.total_crashes = BlockCount(EntriesOf(scanned))
            /\ result.metadata.files_with_crashes = Len(EntriesOf(scanned)))

\* a report was returned with the blocks of a file that follows a failed one
C3_Witness ==
    /\ pc = "returned"
    /\ \E k \in 1..Len(scanned), k2 \in 1..Len(scanned) :
          /\ k < k2
          /\ scanned[k].outcome = "error"
          /\ scanned[k2].outcome = "ok"
          /\ scanned[k2].crashes # <<>>
    /\ result.content # <<>>

\* C4: every file that scanned successfully, with zero matches too, has its
\* own entry in the data analyze accumulates.
C4_EntryPerScannedFile ==
    \A k \in 1..Len(scanned) :
        scanned[k].outcome = "ok" =>
            \E e \in 1..Len(all_crashes) :
                all_crashes[e].file = scanned[k].file_index

\* C5: total_crashes is the number of blocks of the accumulated entries and
\* files_with_crashes the number of entries with blocks, at every point of
\* the loop and in the result; an empty file list gives an empty report
\* with every count 0.
C5_AggregatesMatch ==
    /\ total_crashes = BlockCount(all_crashes)
    /\ files_with_crashes =
           Cardinality({k \in 1..Len(all_crashes) : all_crashes[k].crashes # <<>>})
    /\ pc = "returned" =>
          /\ result.content = all_crashes
          /\ result.metadata.total_crashes = BlockCount(all_crashes)
          /\ result.metadata.files_with_crashes =
                 Cardinality({k \in 1..Len(all_crashes) :
                                 all_crashes[k].crashes # <<>>})
          /\ file_paths = <<>> =>
                /\ result.content = <<>>
                /\ result.metadata.total_crashes = 0
                /\ result.metadata.files_with_crashes = 0
                /\ result.metadata.total_files = 0

\* a report over two files with blocks, one of them with several
C5_Witness ==
    /\ pc = "returned"
    /\ Len(all_crashes) = 2
    /\ total_crashes > 2
    /\ result.metadata.total_crashes = total_crashes

\* the indices of the lines of ls that match the pattern
MatchLines(ls) == {j \in 1..Len(ls) : PatternSearch(ls[j])}

\* the index of the k-th matching line of ls
NthMatch(ls, k) ==
    CHOOSE j \in MatchLines(ls) :
        Cardinality({m \in MatchLines(ls) : m <= j}) = k

\* _find_crashes_in_file has just returned blocks for the current file
Returned == pc = "located" /\ ret.kind = "return"

\* the blocks with every line rstripped
StripBlocks(blocks) ==
    [b \in 1..Len(blocks) |->
        [j \in 1..Len(blocks[b]) |-> Rstrip(blocks[b][j])]]

\* C6: under either strategy every block _find_crashes_in_file returns has
\* at least 1 and at most N + 1 = 11 lines and a first line that matches
\* the pattern.
C6_BlockShape ==
    Returned =>
        \A b \in 1..Len(ret.crashes) :
            /\ Len(ret.crashes[b]) >= 1
            /\ Len(ret.crashes[b]) <= ContextAfter + 1
            /\ PatternSearch(ret.crashes[b][1])

\* C7: for the same file the ripgrep strategy returns the blocks the
\* direct strategy returns, with the same boundaries (the lines compared
\* without their trailing whitespace, which the direct strategy strips).
C7_StrategiesAgree ==
    (Returned /\ via = "ripgrep") =>
        StripBlocks(ret.crashes) = ManualBlocks(ContentOf(file_idx))

\* C8: a failed ripgrep run is always followed by _manual_search on the
\* same file, and what _find_crashes_in_file then gives is what the direct
\* strategy gives for the file: its blocks, the read error of a missing
\* file or the cancellation; never the ripgrep failure, never blocks made
\* of the lines the failed run had collected.
C8_FallbackIsDirect ==
    /\ [][(pc = "rg_failed" /\ pc' # pc) =>
              /\ pc' = "manual_open"
              /\ file_idx' = file_idx
              /\ ret' = NoRet]_vars
    /\ []((via = "fallback" /\ pc = "manual_loop") =>
              lines = ContentOf(file_idx))
    /\ []((via = "fallback" /\ pc = "located") =>
              IF file_paths[file_idx].exists
              THEN \/ ret = [kind |-> "return",
                             crashes |-> ManualBlocks(ContentOf(file_idx)),
                             exc |-> "none"]
                   \/ /\ ret = [kind |-> "raise", crashes |-> <<>>,
                                exc |-> "CancelledError"]
                      /\ IsSet
                      /\ ContentOf(file_idx) # <<>>
              ELSE ret = [kind |-> "raise", crashes |-> <<>>,
                          exc |-> "OSError"])

\* the direct strategy returned blocks after the ripgrep run had failed
C8_Witness ==
    /\ Returned
    /\ via = "fallback"
    /\ ret.crashes # <<>>
    /\ ret.crashes = ManualBlocks(ContentOf(file_idx))

\* C9: in the direct strategy the block of the k-th matching line, at index
\* at of a file of L lines, is the lines at .. min(at + N, L) in file order
\* (as captured, rstripped); a match within N lines of the end of the file
\* gives exactly the remaining lines.
C9_DirectWindow ==
    (Returned /\ via \in {"manual", "fallback"}) =>
        LET ls == ContentOf(file_idx)
        IN  /\ Len(ret.crashes) = Cardinality(MatchLines(ls))
            /\ \A k \in 1..Len(ret.crashes) :
                  LET at == NthMatch(ls, k)
                      last == IF at + ContextAfter <= Len(ls)
                              THEN at + ContextAfter ELSE Len(ls)
                      block == ret.crashes[k]
                  IN  /\ Len(block) = last - at + 1
                      /\ \A j \in 1..Len(block) :
                            block[j] = Rstrip(ls[at + j - 1])
                      /\ (Len(ls) - at < ContextAfter) =>
                            Len(block) = Len(ls) - at + 1

\* the direct strategy returned a full block and a block cut by the end of
\* the file
C9_Witness ==
    /\ Returned
    /\ via = "manual"
    /\ \E a \in 1..Len(ret.crashes), b \in 1..Len(ret.crashes) :
          /\ Len(ret.crashes[a]) = ContextAfter + 1
          /\ Len(ret.crashes[b]) < ContextAfter + 1

\* C10: for every file the number of blocks returned is the number of
\* lines that match the pattern: a match inside the window of an earlier
\* match has its own block.
C10_BlockPerMatch ==
    Returned =>
        Len(ret.crashes) = Cardinality(MatchLines(ContentOf(file_idx)))

\* what scanning the file at position idx with strategy v gives when no
\* cancellation is signalled: its blocks (none for a file that failed)
BlocksVia(idx, v) ==
    IF v = "ripgrep" THEN GroupBySeparator(RipgrepSearch(ContentOf(idx)))
    ELSE IF file_paths[idx].exists THEN ManualBlocks(ContentOf(idx))
    ELSE <<>>

\* the per-file entries of files 1..n of the request, given the strategy
\* that scanned each
RECURSIVE EntriesUpTo(_)
EntriesUpTo(n) ==
    IF n = 0 THEN <<>>
    ELSE IF BlocksVia(n, scanned[n].via) # <<>>
    THEN Append(EntriesUpTo(n - 1),
                [file |-> n, crashes |-> BlocksVia(n, scanned[n].via)])
    ELSE EntriesUpTo(n - 1)

\* C11: emitting progress never changes the outcome: whatever the size
\* lookup and the callback do, the step leads to the scan of the same file
\* with the accumulators untouched and nothing raised, and when the
\* cancellation is never signalled the result is a function of the files
\* and of the strategy that scanned each, with every file visited.
C11_ProgressIsInert ==
    /\ [][(pc = "progress" /\ pc' # pc) =>
              /\ pc' = "locate"
              /\ file_idx' = file_idx
              /\ raised' = "none"
              /\ UNCHANGED <<all_crashes, total_crashes, files_with_crashes,
                             result, scanned, located>>]_vars
    /\ []((pc = "returned" /\ cancellation_event # "set") =>
              /\ Len(scanned) = Len(file_paths)
              /\ \A k \in 1..Len(scanned) : scanned[k].file_index = k
              /\ result =
                    [returned |-> TRUE,
                     content |-> EntriesUpTo(Len(file_paths)),
                     metadata |->
                        [total_crashes |-> BlockCount(EntriesUpTo(Len(file_paths))),
                         files_with_crashes |-> Len(EntriesUpTo(Len(file_paths))),
                         total_files |-> Len(file_paths)]])

\* a report with blocks was returned although emitting progress failed for
\* one file and succeeded for another
C11_Witness ==
    /\ pc = "returned"
    /\ cancellation_event # "set"
    /\ progress_errors # <<>>
    /\ Len(events) > Len(progress_errors)
    /\ result.content # <<>>

\* a line of the file as strategy v hands it over
Captured(v, line) == IF v = "ripgrep" THEN Chomp(line) ELSE Rstrip(line)

\* block is the lines s, s + 1, ... of ls, as strategy v hands them over
OccursAt(block, ls, s, v) ==
    /\ s + Len(block) - 1 <= Len(ls)
    /\ \A j \in 1..Len(block) : block[j] = Captured(v, ls[s + j - 1])

\* the least element of a non-empty set of numbers
Least(S) == CHOOSE x \in S : \A y \in S : x <= y

\* blocks k, k + 1, ... start at lines of ls that ascend from line from on
RECURSIVE StartsAscend(_, _, _, _, _)
StartsAscend(blocks, k, ls, from, v) ==
    IF k > Len(blocks) THEN TRUE
    ELSE LET S == {s \in from..Len(ls) : OccursAt(blocks[k], ls, s, v)}
         IN  /\ S # {}
             /\ StartsAscend(blocks, k + 1, ls, Least(S) + 1, v)

\* the strategy that scanned the file at position idx
ViaOf(idx) ==
    LET k == CHOOSE k \in 1..Len(scanned) : scanned[k].file_index = idx
    IN  scanned[k].via

\* C12: the per-file entries are in the order of their paths in the
\* request, and the blocks of each entry start at ascending lines of its
\* file; the report returned has the entries in that order.
C12_InputOrder ==
    /\ \A a \in 1..Len(all_crashes), b \in 1..Len(all_crashes) :
          a < b => all_crashes[a].file < all_crashes[b].file
    /\ \A a \in 1..Len(all_crashes) :
          StartsAscend(all_crashes[a].crashes, 1, ContentOf(all_crashes[a].file),
                       1, ViaOf(all_crashes[a].file))
    /\ pc = "returned" => result.content = all_crashes

\* a report over two files, the direct strategy having found two blocks in
\* one of them
C12_Witness ==
    /\ pc = "returned"
    /\ Len(result.content) = 2
    /\ \E a \in 1..Len(all_crashes) :
          /\ Len(all_crashes[a].crashes) >= 2
          /\ ViaOf(all_crashes[a].file) = "manual"

\* the blocks of file k of paths scanned alone by strategy v
AloneBlocks(paths, k, v) ==
    IF v = "ripgrep" THEN GroupBySeparator(RipgrepSearch(paths[k].content))
    ELSE IF paths[k].exists THEN ManualBlocks(paths[k].content)
    ELSE <<>>

\* the entries analyze accumulates for files 1..n of paths when it runs
\* alone and file k is scanned by strategy vs[k]
RECURSIVE AloneEntries(_, _, _)
AloneEntries(paths, vs, n) ==
    IF n = 0 THEN <<>>
    ELSE IF AloneBlocks(paths, n, vs[n]) # <<>>
    THEN Append(AloneEntries(paths, vs, n - 1),
                [file |-> n, crashes |-> AloneBlocks(paths, n, vs[n])])
    ELSE AloneEntries(paths, vs, n - 1)

\* C13: two analyze calls interleaved at their await points do not
\* interfere: at every point the accumulators of each call are those of
\* its own files visited so far, and each returns the result it returns
\* when run alone on its own file list.
C13_NoInterference ==
    \A r \in DOMAIN requests :
        LET q == requests[r]
            mine == AloneEntries(q.file_paths, q.vias, Len(q.vias))
        IN  /\ Len(q.vias) = q.file_idx - 1
            /\ q.all_crashes = mine
            /\ q.total_crashes = BlockCount(mine)
            /\ q.files_with_crashes = Len(mine)
            /\ q.pc = "returned" =>
                  /\ Len(q.vias) = Len(q.file_paths)
                  /\ q.result =
                        [returned |-> TRUE,
                         content |-> mine,
                         metadata |-> [total_crashes |-> BlockCount(mine),
                                       files_with_crashes |-> Len(mine),
                                       total_files |-> Len(q.file_paths)]]

\* both calls returned reports with blocks, different ones, after the
\* second had started while the first was under way
C13_Witness ==
    /\ DOMAIN requests = {1, 2}
    /\ requests[1].pc = "returned"
    /\ requests[2].pc = "returned"
    /\ requests[1].result.content # <<>>
    /\ requests[2].result.content # <<>>
    /\ requests[1].result # requests[2].result

\* the maximal runs of lines of out that hold no separator, as <<first, last>>
Runs(out) ==
    {r \in (1..Len(out)) \X (1..Len(out)) :
        /\ r[1] <= r[2]
        /\ \A j \in r[1]..r[2] : out[j] # Separator
        /\ r[1] = 1 \/ out[r[1] - 1] = Separator
        /\ r[2] = Len(out) \/ out[r[2] + 1] = Separator}

\* the lines of the blocks, one after the other
RECURSIVE Flatten(_)
Flatten(blocks) ==
    IF blocks = <<>> THEN <<>> ELSE blocks[1] \o Flatten(Tail(blocks))

NotSeparator(line) == line # Separator

\* C14: the grouping loop returns exactly the maximal non-empty runs of
\* lines between separators, in order: no block is empty or holds a
\* separator, leading, trailing and doubled separators give no block, the
\* lines after the last separator form the last block, and the blocks
\* put end to end are the output without its separators.
C14_MaximalRuns ==
    pc = "located" =>
        LET out == crash_lines
            blocks == ret.crashes
        IN  /\ Len(blocks) = Cardinality(Runs(out))
            /\ \A k \in 1..Len(blocks) :
                  /\ blocks[k] # <<>>
                  /\ \A j \in 1..Len(blocks[k]) : blocks[k][j] # Separator
                  /\ \E r \in Runs(out) :
                        /\ Cardinality({o \in Runs(out) : o[1] <= r[1]}) = k
                        /\ blocks[k] = SubSeq(out, r[1], r[2])
            /\ Flatten(blocks) = SelectSeq(out, NotSeparator)

\* an output with a leading and a doubled separator and lines after the
\* last separator was grouped into two blocks
C14_Witness ==
    /\ pc = "located"
    /\ Len(crash_lines) >= 5
    /\ crash_lines[1] = Separator
    /\ \E j \in 2..(Len(crash_lines) - 1) :
          crash_lines[j] = Separator /\ crash_lines[j + 1] = Separator
    /\ crash_lines[Len(crash_lines)] # Separator
    /\ Len(ret.crashes) = 2

\* the events passed to the callback that carry file index idx
EventsFor(idx) == {e \in 1..Len(events) : events[e].file_index = idx}

\* C15 as stated: with a callback, exactly one ProgressEvent is delivered
\* for every file whose scan is started.
C15_EventPerStartedFile ==
    progress_callback =>
        \A l \in 1..Len(located) : Cardinality(EventsFor(located[l])) = 1

\* C15 as amended: with a callback, exactly one ProgressEvent, carrying
\* the 1-based index, the file count and the path, is delivered for every
\* started file whose size lookup succeeds, and none for a file whose size
\* lookup raises; an event is delivered after the per-file check and
\* before _find_crashes_in_file is called for the file, and the events are
\* in increasing file index. Without a callback nothing is delivered.
C15_EventPerSizedFile ==
    /\ ~progress_callback => events = <<>>
    /\ \A e \in 1..Len(events) :
          LET idx == events[e].file_index
          IN  /\ idx \in 1..Len(file_paths)
              /\ events[e] = [type |-> "file_open", file_path |-> idx,
                              file_index |-> idx,
                              total_files |-> Len(file_paths)]
              /\ file_paths[idx].exists
              /\ idx <= file_idx
              /\ \/ \E l \in 1..Len(located) : located[l] = idx
                 \/ idx = file_idx /\ pc = "locate"
    /\ \A e \in 1..Len(events), f \in 1..Len(events) :
          e < f => events[e].file_index < events[f].file_index
    /\ progress_callback =>
          \A l \in 1..Len(located) :
              Cardinality(EventsFor(located[l])) =
                  IF file_paths[located[l]].exists THEN 1 ELSE 0

\* two files were scanned with a callback: the first does not exist and
\* has no event, the second has one
C15_Witness ==
    /\ progress_callback
    /\ pc = "returned"
    /\ Len(located) = 2
    /\ ~file_paths[1].exists
    /\ Len(events) = 1
    /\ events[1].file_index = 2

\* C16: if the event is already set when _find_crashes_in_file is called
\* for a file, under either strategy and for every content, the call ends
\* by raising the cancellation, not by returning blocks.
C16_LocatorChecksFirst ==
    (pc = "located" /\ called_set) =>
        ret.kind = "raise" /\ ret.exc = "CancelledError"

\* the line without its trailing line terminator
RECURSIVE WithoutTerminator(_)
WithoutTerminator(line) ==
    IF line # <<>> /\ line[Len(line)] = "\n"
    THEN WithoutTerminator(SubSeq(line, 1, Len(line) - 1))
    ELSE line

\* C17: in the direct strategy each captured line is the source line with
\* only its trailing line terminator removed: trailing spaces and tabs
\* are kept.
C17_OnlyTerminatorStripped ==
    (Returned /\ via \in {"manual", "fallback"}) =>
        LET ls == ContentOf(file_idx)
        IN  \A k \in 1..Len(ret.crashes) :
                \A j \in 1..Len(ret.crashes[k]) :
                    ret.crashes[k][j] =
                        WithoutTerminator(ls[NthMatch(ls, k) + j - 1])

\* the files of the request whose scan completed
Completed == {k \in 1..Len(scanned) : scanned[k].outcome = "ok"}

C19_Terminates ==
    /\ <>(pc \in {"returned", "raised"})
    /\ [](pc = "returned" =>
            /\ result.returned
            /\ raised = "none"
            /\ Len(scanned) = Len(file_paths)
            /\ \A k \in 1..Len(scanned) : scanned[k].file_index = k
            /\ located = [k \in 1..Len(file_paths) |-> k])
    /\ [](pc = "raised" =>
            /\ raised = "CancelledError"
            /\ ~result.returned)
    /\ [][(pc \in {"returned", "raised"}) => (pc' = pc)]_vars

\* analyze returned after two files, the first of which failed
C19_Witness ==
    /\ pc = "returned"
    /\ Len(file_paths) = 2
    /\ Len(scanned) = 2
    /\ scanned[1].outcome = "error"
    /\ scanned[2].outcome = "ok"

=============================================================================
